---- MODULE Spec2Model ----
(***************************************************************************)
(* A model of src/qiime2_methods.py (class Qiime2Methods): the per-sample  *)
(* dispatchers built on concurrent.futures.ThreadPoolExecutor, the step    *)
(* wrappers that build an argument vector and hand it to subprocess.run,   *)
(* and the taxonomy header rewrite.                                        *)
(*                                                                         *)
(* External programs are the environment: once started, a process          *)
(* terminates with exit status 0 or 1, chosen nondeterministically.        *)
(***************************************************************************)
EXTENDS Integers, Sequences, FiniteSets, TLC

\* ---------------------------------------------------------------- bounds
MaxCpu == 20        \* cpu budgets handed to a dispatcher are 0..MaxCpu
MaxItems == 5       \* a dispatcher receives 0..MaxItems work items
MaxCalls == 2       \* direct step calls a caller chains in one run
MaxShare == 2       \* cpu argument of a direct extract/diversity call is 1..MaxShare
MaxSamples == 2     \* samples a direct call may name
MaxFileLen == 4     \* characters in the taxonomy table before the rewrite

\* ------------------------------------------------------ program constants
CpuDivisor == 4     \* the 4 of int(cpu / 4)

VARIABLES
    pc,           \* where the caller is: "idle", "pool", "shutdown", "direct", "taxo_*", "done"
    op,           \* the routine of Qiime2Methods being executed ("none" before the first call)
    calls,        \* number of routines called so far
    cpu,          \* the cpu argument of the current call
    items,        \* the work items of the current call, each a sequence of fastq paths
    max_workers,  \* max_workers argument given to ThreadPoolExecutor
    args,         \* args[i]: argument tuple submitted for item i
    fut,          \* fut[i]: state of the future of item i
    qhead,        \* index of the next work item a pool worker dequeues
    ri,           \* index of the next future the result iterator waits for
    procs,        \* log of the external processes started, in start order: the argument
                  \* vector, the call and future that started it, its status, exit code
    outcome,      \* how the current call ended: "none" while it runs
    fs,           \* the two files of the taxonomy rewrite: [input, tmp]
    orig,         \* content of the taxonomy file when change_taxonomy_file_header was called
    in_lines,     \* lines in_f has not yet yielded
    out_buf       \* characters written to out_f and not yet flushed to the file

vars == <<pc, op, calls, cpu, items, max_workers, args, fut, qhead, ri, procs,
          outcome, fs, orig, in_lines, out_buf>>

poolVars == <<max_workers, args, fut, qhead, ri>>
taxoVars == <<fs, orig, in_lines, out_buf>>

\* ------------------------------------------------------------------ paths
InputFolder == "fastq"
OutputFolder == "out"
LogFolder == "log"

\* A fastq path <dir>/<sample>_<mate>.fastq; mate 0 is a single-end file.
Fastq(i, m) == [dir |-> InputFolder, sample |-> i, mate |-> m]

\* output_folder + '/' + os.path.basename(fastq)
OutPath(folder, fastq) == [dir |-> folder, sample |-> fastq.sample, mate |-> fastq.mate]

\* log_folder + '/' + os.path.basename(fastq).split('_')[0] + '.log'
LogPath(folder, fastq) == [dir |-> folder, sample |-> fastq.sample]

NoLog == [dir |-> "", sample |-> 0]

\* ------------------------------------------------------- argument vectors
\* An argument vector: the program (and script or sub-command), the fixed
\* flags, the input paths, the values given to --threads in order, the
\* output paths and the log path.
Cmd(prog, flags, inputs, threads, outputs, log) ==
    [prog |-> prog, flags |-> flags, inputs |-> inputs, threads |-> threads,
     outputs |-> outputs, log |-> log]

rc_fastq_cmd(input_fastq, output_fastq) ==
    Cmd(<<"reformat.sh">>, <<"ow=t", "rcomp=t">>, <<input_fastq>>, <<>>,
        <<output_fastq>>, NoLog)

extract_its_se_cmd(fastq_file, output_folder, log_folder, n) ==
    Cmd(<<"itsxpress">>,
        <<"--single_end", "--region", "ITS1", "--taxa", "Fungi", "--cluster_id", "0.99">>,
        <<fastq_file>>, <<n, n>>,
        <<OutPath(output_folder, fastq_file)>>, LogPath(log_folder, fastq_file))

extract_its_pe_cmd(fastq_r1, fastq_r2, output_folder, log_folder, n) ==
    Cmd(<<"itsxpress">>,
        <<"--region", "ITS1", "--taxa", "Fungi", "--cluster_id", "0.99">>,
        <<fastq_r1, fastq_r2>>, <<n, n>>,
        <<OutPath(output_folder, fastq_r1), OutPath(output_folder, fastq_r2)>>,
        LogPath(log_folder, fastq_r1))

fix_fastq_se_cmd(fastq_file) ==
    Cmd(<<"python", "remove_empty_fastq_entries.py">>, <<"-f">>, <<fastq_file>>, <<>>,
        <<>>, NoLog)

\* Variant: the paired fix run as a single-end call on R1 alone.
fix_fastq_pe_single_mate_cmd(fastq_r1, fastq_r2) ==
    Cmd(<<"python", "remove_empty_fastq_entries.py">>, <<"-f">>, <<fastq_r1>>, <<>>,
        <<>>, NoLog)

fix_fastq_pe_cmd(fastq_r1, fastq_r2) ==
    Cmd(<<"python", "remove_empty_fastq_entries.py">>, <<"-f", "-f2">>,
        <<fastq_r1, fastq_r2>>, <<>>, <<>>, NoLog)

\* A pipeline artifact (metadata file, tree, table, visualization): only its
\* name is threaded through.
Artifact(name) == [artifact |-> name]

qiime2_core_diversity_cmd(n, metadata_file, rooted_tree_qza, table_qza, output_folder) ==
    Cmd(<<"qiime", "diversity", "core-metrics-phylogenetic">>,
        <<"--p-n-jobs-or-threads", "--p-sampling-depth", "1000">>,
        <<rooted_tree_qza, table_qza, metadata_file>>, <<n>>,
        <<[dir |-> output_folder, artifact |-> "core-metrics-results"]>>, NoLog)

qiime2_rarefaction_cmd(metadata_file, rooted_tree_qza, table_qza, rare_qzv) ==
    Cmd(<<"qiime", "diversity", "alpha-rarefaction">>, <<"--p-max-depth", "4000">>,
        <<rooted_tree_qza, table_qza, metadata_file>>, <<>>, <<rare_qzv>>, NoLog)

\* The value the external program uses for --threads: the last one given.
Threads(c) == IF c.threads = <<>> THEN 0 ELSE c.threads[Len(c.threads)]

\* ------------------------------------------------------------ step wrappers
\* Variant: every wrapper, core diversity included, runs its cmd.
StepInvokesAll(f) == TRUE

\* Whether the wrapper ends with subprocess.run(cmd).
StepInvokes(f) == f # "qiime2_core_diversity"

\* Number of positional parameters of a wrapper.
Arity(f) ==
    CASE f = "rc_fastq" -> 2
      [] f = "extract_its_se" -> 4
      [] f = "extract_its_pe" -> 5
      [] f = "fix_fastq_se" -> 1
      [] f = "fix_fastq_pe" -> 2
      [] f = "qiime2_core_diversity" -> 5
      [] OTHER -> 4

\* The argument vector wrapper f builds from the argument tuple a.
BuildCmd(f, a) ==
    CASE f = "rc_fastq" -> rc_fastq_cmd(a[1], a[2])
      [] f = "extract_its_se" -> extract_its_se_cmd(a[1], a[2], a[3], a[4])
      [] f = "extract_its_pe" -> extract_its_pe_cmd(a[1], a[2], a[3], a[4], a[5])
      [] f = "fix_fastq_se" -> fix_fastq_se_cmd(a[1])
      [] f = "fix_fastq_pe" -> fix_fastq_pe_cmd(a[1], a[2])
      [] f = "qiime2_core_diversity" ->
            qiime2_core_diversity_cmd(a[1], a[2], a[3], a[4], a[5])
      [] OTHER -> qiime2_rarefaction_cmd(a[1], a[2], a[3], a[4])

\* Variant: subprocess.run(cmd, check=True) raises on a non-zero exit.
RunOutcomeChecked(code) == IF code = 0 THEN "finished" ELSE "raised"

\* subprocess.run(cmd) without check=True: the call returns a CompletedProcess
\* whatever the exit status, so the wrapper returns None.
RunOutcome(code) == "finished"

\* -------------------------------------------------------------- dispatchers
\* int(a / b) of Python: true division, then truncation towards zero.
IntOfQuotient(a, b) == IF a >= 0 THEN a \div b ELSE -((-a) \div b)

ItsDispatchers == {"extract_its_se_parallel", "extract_its_pe_parallel"}
FixDispatchers == {"fix_fastq_se_parallel", "fix_fastq_pe_parallel"}
Dispatchers == ItsDispatchers \cup FixDispatchers \cup {"rc_fastq_parallel"}
PairedDispatchers == {"extract_its_pe_parallel", "fix_fastq_pe_parallel"}

\* The max_workers argument of the dispatcher's ThreadPoolExecutor.
PoolSize(d, n) == IF d \in FixDispatchers THEN n ELSE IntOfQuotient(n, CpuDivisor)

\* Variant: the 4 cores per instance of the dispatchers' docstrings.
PerWorkerCpuFour(n) == CpuDivisor

\* The cpu argument placed in every argument tuple.
PerWorkerCpu(n) == IntOfQuotient(n, CpuDivisor)

\* The wrapper the dispatcher maps over its argument tuples.
WorkerFn(d) ==
    CASE d = "rc_fastq_parallel" -> "extract_its_se"
      [] d = "extract_its_se_parallel" -> "extract_its_se"
      [] d = "extract_its_pe_parallel" -> "extract_its_pe"
      [] d = "fix_fastq_se_parallel" -> "fix_fastq_se"
      [] OTHER -> "fix_fastq_pe"

\* The argument tuple the dispatcher's generator yields for one item.
DispatchArgs(d, item, n) ==
    CASE d = "rc_fastq_parallel" -> <<item[1], OutputFolder, PerWorkerCpu(n)>>
      [] d = "extract_its_se_parallel" ->
            <<item[1], OutputFolder, LogFolder, PerWorkerCpu(n)>>
      [] d = "extract_its_pe_parallel" ->
            <<item[1], item[2], OutputFolder, LogFolder, PerWorkerCpu(n)>>
      [] d = "fix_fastq_se_parallel" -> <<item[1]>>
      [] OTHER -> <<item[1], item[2]>>

\* fastq_list of n single-end files / sample_dict of n pairs, in iteration order.
FastqList(n) == [i \in 1..n |-> <<Fastq(i, 0)>>]
SampleDict(n) == [i \in 1..n |-> <<Fastq(i, 1), Fastq(i, 2)>>]
DispatchItems(d, n) == IF d \in PairedDispatchers THEN SampleDict(n) ELSE FastqList(n)

Running == {i \in 1..Len(fut) : fut[i] = "running"}
ProcOf(i) == CHOOSE k \in 1..Len(procs) : procs[k].by = i /\ procs[k].status = "running"

NoFile == [exists |-> FALSE, data |-> <<>>]

Init ==
    /\ pc = "idle"
    /\ op = "none"
    /\ calls = 0
    /\ cpu = 0
    /\ items = <<>>
    /\ max_workers = 0
    /\ args = <<>>
    /\ fut = <<>>
    /\ qhead = 1
    /\ ri = 1
    /\ procs = <<>>
    /\ outcome = "none"
    /\ fs = [input |-> NoFile, tmp |-> NoFile]
    /\ orig = <<>>
    /\ in_lines = <<>>
    /\ out_buf = <<>>

\* A dispatcher is called: ThreadPoolExecutor(max_workers=...) raises ValueError
\* for max_workers <= 0; otherwise executor.map submits one future per item.
DispatchCall ==
    /\ pc = "idle"
    /\ \E d \in Dispatchers, c \in 0..MaxCpu, n \in 0..MaxItems :
        /\ op' = d
        /\ cpu' = c
        /\ items' = DispatchItems(d, n)
        /\ max_workers' = PoolSize(d, c)
        /\ IF PoolSize(d, c) <= 0
             THEN /\ pc' = "done"
                  /\ outcome' = "ValueError"
                  /\ args' = <<>>
                  /\ fut' = <<>>
             ELSE /\ pc' = "pool"
                  /\ outcome' = "none"
                  /\ args' = [i \in 1..n |-> DispatchArgs(d, DispatchItems(d, n)[i], c)]
                  /\ fut' = [i \in 1..n |-> "pending"]
    /\ calls' = calls + 1
    /\ qhead' = 1
    /\ ri' = 1
    /\ UNCHANGED <<procs, taxoVars>>

\* A free pool worker dequeues the next work item and calls the wrapper on its
\* argument tuple: a wrong number of arguments raises TypeError in the future,
\* otherwise the wrapper starts its external process.
WorkerStart ==
    /\ pc \in {"pool", "shutdown"}
    /\ qhead <= Len(fut)
    /\ fut[qhead] = "pending"
    /\ Cardinality(Running) < max_workers
    /\ LET f == WorkerFn(op)
           a == args[qhead]
       IN IF Len(a) # Arity(f)
            THEN /\ fut' = [fut EXCEPT ![qhead] = "raised"]
                 /\ procs' = procs
            ELSE /\ fut' = [fut EXCEPT ![qhead] = "running"]
                 /\ procs' = Append(procs, [argv |-> BuildCmd(f, a), call |-> calls,
                                            by |-> qhead, status |-> "running",
                                            code |-> 0])
    /\ qhead' = qhead + 1
    /\ UNCHANGED <<pc, op, calls, cpu, items, max_workers, args, ri, outcome, taxoVars>>

\* A pool worker dequeues a work item whose future was cancelled and drops it.
WorkerSkipCancelled ==
    /\ pc \in {"pool", "shutdown"}
    /\ qhead <= Len(fut)
    /\ fut[qhead] = "cancelled"
    /\ qhead' = qhead + 1
    /\ UNCHANGED <<pc, op, calls, cpu, items, max_workers, args, fut, ri, procs, outcome,
                   taxoVars>>

\* The external process of a running future terminates; subprocess.run returns.
WorkerProcExit ==
    /\ pc \in {"pool", "shutdown"}
    /\ \E i \in Running, code \in {0, 1} :
        /\ procs' = [procs EXCEPT ![ProcOf(i)].status = "exited", ![ProcOf(i)].code = code]
        /\ fut' = [fut EXCEPT ![i] = RunOutcome(code)]
    /\ UNCHANGED <<pc, op, calls, cpu, items, max_workers, args, qhead, ri, outcome, taxoVars>>

\* The loop over executor.map's results takes the next result, in submission
\* order. A future that raised re-raises here: the iterator cancels the futures
\* still pending and the exception leaves the with block.
ResultNext ==
    /\ pc = "pool"
    /\ ri <= Len(fut)
    /\ \/ /\ fut[ri] = "finished"
          /\ ri' = ri + 1
          /\ UNCHANGED <<pc, fut, outcome>>
       \/ /\ fut[ri] = "raised"
          /\ fut' = [i \in 1..Len(fut) |-> IF fut[i] = "pending" THEN "cancelled" ELSE fut[i]]
          /\ pc' = "shutdown"
          /\ outcome' = IF Len(args[ri]) # Arity(WorkerFn(op))
                          THEN "TypeError" ELSE "CalledProcessError"
          /\ ri' = ri
    /\ UNCHANGED <<op, calls, cpu, items, max_workers, args, qhead, procs, taxoVars>>

\* The loop is over: the with block is left normally.
ResultsExhausted ==
    /\ pc = "pool"
    /\ ri > Len(fut)
    /\ pc' = "shutdown"
    /\ UNCHANGED <<op, calls, cpu, items, max_workers, args, fut, qhead, ri, procs, outcome,
                   taxoVars>>

\* Variant: the dispatcher returns without waiting for its futures.
ExitWithNoWait ==
    /\ pc = "pool"
    /\ pc' = "done"
    /\ outcome' = "returned"
    /\ UNCHANGED <<op, calls, cpu, items, poolVars, procs, taxoVars>>

\* ThreadPoolExecutor.__exit__: shutdown(wait=True) joins the workers, which
\* first drain the queue; then the dispatcher returns or re-raises.
ExitWith ==
    /\ pc = "shutdown"
    /\ qhead > Len(fut)
    /\ Running = {}
    /\ pc' = "done"
    /\ outcome' = IF outcome = "none" THEN "returned" ELSE outcome
    /\ UNCHANGED <<op, calls, cpu, items, poolVars, procs, taxoVars>>

\* ------------------------------------------------------------ direct calls
DirectSteps == {"rc_fastq", "extract_its_se", "extract_its_pe", "fix_fastq_se",
                "fix_fastq_pe", "qiime2_core_diversity", "qiime2_rarefaction"}

\* The argument tuples a caller may hand to wrapper f.
DirectArgs(f) ==
    CASE f = "rc_fastq" ->
            {<<Fastq(i, 0), OutPath(OutputFolder, Fastq(i, 0))>> : i \in 1..MaxSamples}
      [] f = "extract_its_se" ->
            {<<Fastq(i, 0), OutputFolder, LogFolder, n>> : i \in 1..MaxSamples, n \in 1..MaxShare}
      [] f = "extract_its_pe" ->
            {<<Fastq(i, 1), Fastq(i, 2), OutputFolder, LogFolder, n>> :
                i \in 1..MaxSamples, n \in 1..MaxShare}
      [] f = "fix_fastq_se" -> {<<Fastq(i, 0)>> : i \in 1..MaxSamples}
      [] f = "fix_fastq_pe" -> {<<Fastq(i, 1), Fastq(i, 2)>> : i \in 1..MaxSamples}
      [] f = "qiime2_core_diversity" ->
            {<<n, Artifact("metadata"), Artifact("rooted_tree"), Artifact("table"),
               OutputFolder>> : n \in 1..MaxShare}
      [] OTHER ->
            {<<Artifact("metadata"), Artifact("rooted_tree"), Artifact("table"),
               Artifact("rarefaction")>>}

\* The sequence of fastq paths among the arguments of a direct call.
DirectItem(f, a) ==
    CASE f \in {"rc_fastq", "extract_its_se", "fix_fastq_se"} -> <<a[1]>>
      [] f \in {"extract_its_pe", "fix_fastq_pe"} -> <<a[1], a[2]>>
      [] OTHER -> <<>>

\* A caller calls one step wrapper directly, possibly after earlier direct
\* calls have returned: the wrapper builds cmd and, if it has one, reaches its
\* subprocess.run(cmd), which starts the process.
DirectCall ==
    /\ \/ pc = "idle"
       \/ pc = "done" /\ op \in DirectSteps /\ outcome = "returned"
    /\ calls < MaxCalls
    /\ \E f \in DirectSteps :
        \E a \in DirectArgs(f) :
            /\ op' = f
            /\ items' = <<DirectItem(f, a)>>
            /\ cpu' = IF f \in {"extract_its_se", "extract_its_pe"} THEN a[Len(a)]
                      ELSE IF f = "qiime2_core_diversity" THEN a[1] ELSE 0
            /\ IF StepInvokes(f)
                 THEN /\ procs' = Append(procs, [argv |-> BuildCmd(f, a), call |-> calls + 1,
                                                 by |-> 0, status |-> "running",
                                                 code |-> 0])
                      /\ pc' = "direct"
                      /\ outcome' = "none"
                 ELSE /\ procs' = procs
                      /\ pc' = "done"
                      /\ outcome' = "returned"
    /\ calls' = calls + 1
    /\ UNCHANGED <<poolVars, taxoVars>>

\* The external process of a direct call terminates; subprocess.run returns
\* and so does the wrapper.
DirectProcExit ==
    /\ pc = "direct"
    /\ \E code \in {0, 1} :
        /\ procs' = [procs EXCEPT ![Len(procs)].status = "exited", ![Len(procs)].code = code]
        /\ outcome' = IF RunOutcome(code) = "finished" THEN "returned"
                      ELSE "CalledProcessError"
    /\ pc' = "done"
    /\ UNCHANGED <<op, calls, cpu, items, poolVars, taxoVars>>

\* ------------------------------------------------- taxonomy header rewrite
\* A file is a sequence of characters: "CR" is '\r', "LF" is '\n', the header
\* text is one character, any other character is "a".
Chars == {"a", "CR", "LF"}
Contents == UNION {[1..n -> Chars] : n \in 0..MaxFileLen}
HeaderText == "#OTUID\ttaxonomy\tconfidence"
File(data) == [exists |-> TRUE, data |-> data]

\* Index of the first line terminator character of s, 0 if there is none.
FirstEol(s) ==
    IF \E i \in 1..Len(s) : s[i] \in {"CR", "LF"}
      THEN CHOOSE i \in 1..Len(s) :
              /\ s[i] \in {"CR", "LF"}
              /\ \A j \in 1..(i - 1) : s[j] \notin {"CR", "LF"}
      ELSE 0

\* The lines of s as a text-mode file finds them (universal newlines: a line
\* ends at "\n", "\r\n" or "\r"), each with the characters it has in the file.
RECURSIVE RawLines(_)
RawLines(s) ==
    IF s = <<>> THEN <<>>
    ELSE LET i == FirstEol(s)
         IN IF i = 0 THEN <<s>>
            ELSE LET j == IF s[i] = "CR" /\ i < Len(s) /\ s[i + 1] = "LF" THEN i + 1 ELSE i
                 IN <<SubSeq(s, 1, j)>> \o RawLines(SubSeq(s, j + 1, Len(s)))

\* A line as reading hands it to the program: its terminator translated to "\n".
UniversalNewline(line) ==
    LET i == FirstEol(line)
    IN IF i = 0 THEN line ELSE SubSeq(line, 1, i - 1) \o <<"LF">>

\* The lines iteration over open(path, 'r') yields for a file holding s.
ReadLines(s) == [k \in 1..Len(RawLines(s)) |-> UniversalNewline(RawLines(s)[k])]

\* os.linesep of the POSIX systems the pipeline's tools run on.
LineSep == <<"LF">>

\* The characters out_f.write(str) adds to a file opened with open(path, 'w'):
\* every "\n" of str becomes os.linesep.
RECURSIVE WriteText(_)
WriteText(str) ==
    IF str = <<>> THEN <<>>
    ELSE (IF Head(str) = "LF" THEN LineSep ELSE <<Head(str)>>) \o WriteText(Tail(str))

\* Variant: the rewrite writes straight to the original path.
TmpPathInPlace(path) == path

\* tmp = input_taxo + '.tmp'
TmpPath(path) == "tmp"

TaxoOpen == {"taxo_write_header", "taxo_open_in", "taxo_skip", "taxo_copy"}

\* change_taxonomy_file_header(input_taxo) is called on an existing table; a
\* '.tmp' file of an earlier run may be lying around.
TaxoCall ==
    /\ pc = "idle"
    /\ \E content \in Contents, stale \in BOOLEAN :
        /\ fs' = [input |-> File(content), tmp |-> IF stale THEN File(<<"a">>) ELSE NoFile]
        /\ orig' = content
    /\ op' = "change_taxonomy_file_header"
    /\ pc' = "taxo_open_tmp"
    /\ calls' = calls + 1
    /\ outcome' = "none"
    /\ UNCHANGED <<cpu, items, poolVars, procs, in_lines, out_buf>>

\* open(tmp, 'w'): creates the file or truncates it.
TaxoOpenTmp ==
    /\ pc = "taxo_open_tmp"
    /\ fs' = [fs EXCEPT ![TmpPath("input")] = File(<<>>)]
    /\ out_buf' = <<>>
    /\ pc' = "taxo_write_header"
    /\ UNCHANGED <<op, calls, cpu, items, poolVars, procs, outcome, orig, in_lines>>

\* out_f.write('#OTUID\ttaxonomy\tconfidence\n')
TaxoWriteHeader ==
    /\ pc = "taxo_write_header"
    /\ out_buf' = out_buf \o WriteText(<<HeaderText, "LF">>)
    /\ pc' = "taxo_open_in"
    /\ UNCHANGED <<op, calls, cpu, items, poolVars, procs, outcome, fs, orig, in_lines>>

\* open(input_taxo, 'r')
TaxoOpenIn ==
    /\ pc = "taxo_open_in"
    /\ in_lines' = ReadLines(fs["input"].data)
    /\ pc' = "taxo_skip"
    /\ UNCHANGED <<op, calls, cpu, items, poolVars, procs, outcome, fs, orig, out_buf>>

\* next(in_f): StopIteration on a file without a first line; the exception
\* leaves both with blocks, which close (and flush) the files.
TaxoSkipHeader ==
    /\ pc = "taxo_skip"
    /\ IF in_lines = <<>>
         THEN /\ fs' = [fs EXCEPT ![TmpPath("input")].data = @ \o out_buf]
              /\ out_buf' = <<>>
              /\ pc' = "done"
              /\ outcome' = "StopIteration"
              /\ in_lines' = in_lines
         ELSE /\ in_lines' = Tail(in_lines)
              /\ pc' = "taxo_copy"
              /\ UNCHANGED <<fs, out_buf, outcome>>
    /\ UNCHANGED <<op, calls, cpu, items, poolVars, procs, orig>>

\* for line in in_f: out_f.write(line)
TaxoCopyLine ==
    /\ pc = "taxo_copy"
    /\ in_lines # <<>>
    /\ out_buf' = out_buf \o WriteText(Head(in_lines))
    /\ in_lines' = Tail(in_lines)
    /\ UNCHANGED <<pc, op, calls, cpu, items, poolVars, procs, outcome, fs, orig>>

\* The loop is over: both with blocks close their file; out_f is flushed.
TaxoClose ==
    /\ pc = "taxo_copy"
    /\ in_lines = <<>>
    /\ fs' = [fs EXCEPT ![TmpPath("input")].data = @ \o out_buf]
    /\ out_buf' = <<>>
    /\ pc' = "taxo_replace"
    /\ UNCHANGED <<op, calls, cpu, items, poolVars, procs, outcome, orig, in_lines>>

\* os.replace(tmp, input_taxo): one atomic rename.
TaxoReplace ==
    /\ pc = "taxo_replace"
    /\ fs' = IF TmpPath("input") = "input" THEN fs
             ELSE [fs EXCEPT !["input"] = fs[TmpPath("input")],
                             ![TmpPath("input")] = NoFile]
    /\ pc' = "done"
    /\ outcome' = "returned"
    /\ UNCHANGED <<op, calls, cpu, items, poolVars, procs, orig, in_lines, out_buf>>

\* The buffer of out_f is written out to the file (it may fill at any write).
TaxoFlush ==
    /\ pc \in TaxoOpen
    /\ out_buf # <<>>
    /\ fs' = [fs EXCEPT ![TmpPath("input")].data = @ \o out_buf]
    /\ out_buf' = <<>>
    /\ UNCHANGED <<pc, op, calls, cpu, items, poolVars, procs, outcome, orig, in_lines>>

\* The interpreter is killed in the middle of the rewrite: what the buffer
\* holds is lost.
TaxoInterrupt ==
    /\ pc \in TaxoOpen \cup {"taxo_open_tmp", "taxo_replace"}
    /\ out_buf' = <<>>
    /\ pc' = "done"
    /\ outcome' = "interrupted"
    /\ UNCHANGED <<op, calls, cpu, items, poolVars, procs, fs, orig, in_lines>>

Next ==
    \/ DispatchCall
    \/ WorkerStart
    \/ WorkerSkipCancelled
    \/ WorkerProcExit
    \/ ResultNext
    \/ ResultsExhausted
    \/ ExitWith
    \/ DirectCall
    \/ DirectProcExit
    \/ TaxoCall
    \/ TaxoOpenTmp
    \/ TaxoWriteHeader
    \/ TaxoOpenIn
    \/ TaxoSkipHeader
    \/ TaxoCopyLine
    \/ TaxoClose
    \/ TaxoReplace
    \/ TaxoFlush
    \/ TaxoInterrupt

Spec == Init /\ [][Next]_vars

\* ================================================================== claims
FourDispatchers == ItsDispatchers \cup FixDispatchers
PairedSteps == {"extract_its_pe", "fix_fastq_pe"}

\* The processes started by the current call.
CurrentProcs == {k \in 1..Len(procs) : procs[k].call = calls}

\* The processes of the current call whose argument vector names exactly the
\* paths of the work item.
InvocationsOf(item) == {k \in CurrentProcs : procs[k].argv.inputs = item}

\* C1: when extract_its_se_parallel, extract_its_pe_parallel,
\* fix_fastq_se_parallel or fix_fastq_pe_parallel, called with N items and a
\* pool of W >= 1 workers, is over, it has returned, exactly N external
\* processes were started, one per item, and all of them have terminated.
C1_DispatchCompletes ==
    (op \in FourDispatchers /\ pc = "done" /\ max_workers >= 1) =>
        /\ outcome = "returned"
        /\ Cardinality(CurrentProcs) = Len(items)
        /\ \A i \in 1..Len(items) :
              /\ Cardinality(InvocationsOf(items[i])) = 1
              /\ \A k \in InvocationsOf(items[i]) : procs[k].status = "exited"

\* More items than workers went through the pool and the dispatcher returned.
C1_Witness ==
    /\ op \in FourDispatchers
    /\ pc = "done"
    /\ outcome = "returned"
    /\ Len(items) >= 3
    /\ max_workers < Len(items)
    /\ Cardinality(CurrentProcs) = Len(items)

C3_PairedSingleInvocation ==
    (op \in PairedSteps \cup PairedDispatchers) =>
        /\ \A k \in CurrentProcs :
              /\ Len(procs[k].argv.inputs) = 2
              /\ \E i \in 1..Len(items) : procs[k].argv.inputs = items[i]
        /\ \A i \in 1..Len(items) : Cardinality(InvocationsOf(items[i])) <= 1
        /\ (pc = "done" /\ outcome = "returned") =>
              \A i \in 1..Len(items) : Cardinality(InvocationsOf(items[i])) = 1

\* fix_fastq_pe_parallel has returned from a dictionary of several pairs.
C3_Witness ==
    /\ op = "fix_fastq_pe_parallel"
    /\ pc = "done"
    /\ outcome = "returned"
    /\ Len(items) >= 2
    /\ \A i \in 1..Len(items) : \E k \in CurrentProcs :
          procs[k].argv.inputs = <<Fastq(i, 1), Fastq(i, 2)>>

\* C4: a call of qiime2_core_diversity returns in one step and leaves the log
\* of started processes as it was; no core-metrics-phylogenetic process (the
\* only producer of the core-metrics-results artifact) is ever started.
C4_CoreDiversityStartsNothing ==
    [][ /\ \A k \in 1..Len(procs') :
              procs'[k].argv.prog # <<"qiime", "diversity", "core-metrics-phylogenetic">>
        /\ (op' = "qiime2_core_diversity" /\ calls' = calls + 1) =>
              (procs' = procs /\ pc' = "done" /\ outcome' = "returned") ]_vars

\* qiime2_core_diversity has returned after an earlier step started a process.
C4_Witness ==
    /\ op = "qiime2_core_diversity"
    /\ pc = "done"
    /\ outcome = "returned"
    /\ calls = 2
    /\ Len(procs) = 1

RECURSIVE Flatten(_)
Flatten(seqs) == IF seqs = <<>> THEN <<>> ELSE Head(seqs) \o Flatten(Tail(seqs))

\* C5: after change_taxonomy_file_header has returned on a table with a header
\* line, the file at the original path is the new header line followed by the
\* data lines of the original, character for character, and no '.tmp' file is
\* left. Stated for tables whose header line has text and whose lines end in
\* "\n" or "\r\n"; a line is what the rewrite itself takes for a line.
C5_HeaderRewritten ==
    (/\ op = "change_taxonomy_file_header" /\ pc = "done" /\ outcome = "returned"
     /\ orig[1] = "a"
     /\ \A i \in 1..Len(orig) :
           orig[i] = "CR" => (i < Len(orig) /\ orig[i + 1] = "LF")) =>
        /\ fs["input"].exists
        /\ fs["input"].data = <<HeaderText, "LF">> \o Flatten(Tail(RawLines(orig)))
        /\ ~fs["tmp"].exists

\* The table a complete run of the rewrite leaves at the original path (a file
\* without a first line is never rewritten).
RewrittenTable(s) ==
    IF ReadLines(s) = <<>> THEN s
    ELSE <<HeaderText, "LF">> \o Flatten(Tail(ReadLines(s)))

\* C6: in every state of change_taxonomy_file_header, also after an
\* interruption or an exception, the file at the original path holds the whole
\* original content or the whole rewritten table: the original until the
\* rename (and for good when the call was interrupted or raised), the
\* rewritten table once the call has returned.
C6_OriginalNeverPartial ==
    (op = "change_taxonomy_file_header") =>
        /\ fs["input"].exists
        /\ fs["input"].data \in {orig, RewrittenTable(orig)}
        /\ (pc # "done" \/ outcome \in {"interrupted", "StopIteration"}) =>
              fs["input"].data = orig
        /\ (pc = "done" /\ outcome = "returned") =>
              fs["input"].data = RewrittenTable(orig)

\* Interrupted in the middle of the copy: the '.tmp' file holds part of the
\* new table, the original path still holds the original.
C6_Witness ==
    /\ op = "change_taxonomy_file_header"
    /\ outcome = "interrupted"
    /\ Len(orig) >= 3
    /\ fs["tmp"].exists
    /\ fs["tmp"].data # <<>>
    /\ fs["tmp"].data # RewrittenTable(orig)
    /\ fs["input"].data = orig

\* C7: a process that exits non-zero changes nothing: no future raises or is
\* cancelled, no item gets a second process, and once the dispatcher is over
\* it has returned normally with exactly one process per item; a direct call
\* returns normally as well.
C7_NonZeroExitSwallowed ==
    /\ (op \in FourDispatchers) =>
          /\ \A i \in 1..Len(fut) : fut[i] \notin {"raised", "cancelled"}
          /\ \A i \in 1..Len(items) : Cardinality(InvocationsOf(items[i])) <= 1
          /\ (pc = "done" /\ \E k \in CurrentProcs : procs[k].code # 0) =>
                /\ outcome = "returned"
                /\ \A i \in 1..Len(items) : Cardinality(InvocationsOf(items[i])) = 1
    /\ (op \in DirectSteps /\ pc = "done") => outcome = "returned"

\* The first process of a dispatch failed, the others were still started and
\* the dispatcher returned.
C7_Witness ==
    /\ op \in FourDispatchers
    /\ pc = "done"
    /\ outcome = "returned"
    /\ Len(items) >= 3
    /\ Cardinality(CurrentProcs) = Len(items)
    /\ procs[1].code = 1
    /\ procs[Len(procs)].code = 0

\* Sum of the --threads values of the processes running now.
RECURSIVE ThreadsRunning(_)
ThreadsRunning(k) ==
    IF k = 0 THEN 0
    ELSE (IF procs[k].status = "running" THEN Threads(procs[k].argv) ELSE 0)
         + ThreadsRunning(k - 1)

\* C8: in the ITS-extraction dispatchers the --threads values of the processes
\* running at the same time never add up to more than the cpu budget.
C8_BudgetNotOvercommitted ==
    (op \in ItsDispatchers) => ThreadsRunning(Len(procs)) <= cpu

\* C9: when rc_fastq_parallel (given a pool of at least one worker) is over, it
\* has returned normally and every file of its list has exactly one terminated
\* reformat.sh ow=t rcomp=t process reading it and writing under the output
\* folder.
C9_ReorientDispatch ==
    (op = "rc_fastq_parallel" /\ pc = "done" /\ max_workers >= 1) =>
        /\ outcome = "returned"
        /\ \A i \in 1..Len(items) :
              /\ Cardinality(InvocationsOf(items[i])) = 1
              /\ \A k \in InvocationsOf(items[i]) :
                    /\ procs[k].argv.prog = <<"reformat.sh">>
                    /\ procs[k].argv.flags = <<"ow=t", "rcomp=t">>
                    /\ procs[k].argv.outputs[1].dir = OutputFolder
                    /\ procs[k].status = "exited"

\* C10: for every cpu budget >= 1 the ITS-extraction and reorient dispatchers
\* get a pool of at least one worker, hand every item a cpu share of at least
\* 1, and end by returning normally.
C10_SmallBudgetsWork ==
    (op \in ItsDispatchers \cup {"rc_fastq_parallel"} /\ cpu >= 1) =>
        /\ max_workers >= 1
        /\ \A i \in 1..Len(args) : args[i][Len(args[i])] >= 1
        /\ pc = "done" => outcome = "returned"
====
